---------------------------- MODULE Spec2Model ----------------------------
(***************************************************************************)
(* MODBUS-ASCII master / slave utility (src/modbus/modbus_ascii.py).       *)
(*                                                                         *)
(* Bytes are the integers 0..255; a bytes object is a sequence of them.    *)
(* Time is counted in ticks of the port's read timeout (0.1 s): a read     *)
(* that returns no byte lasts ReadTimeout ticks, a byte arrives within the *)
(* read timeout, its delay rounded to whole ticks.                         *)
(***************************************************************************)
EXTENDS Integers, Sequences, FiniteSets, TLC

VARIABLES now,      \* time.time(), in ticks
          slave,    \* the slave process: CLI arguments, locals of slave_loop
          master,   \* the master process: CLI arguments, locals of run_master
          wire,     \* bytes on their way to each station's serial port
          io,       \* the codec under test: inputs and results
          env       \* what the rest of the bus has done so far

vars == <<now, slave, master, wire, io, env>>

---------------------------------------------------------------------------
(* ASCII codes used by the frame format *)

Colon == 58
CR == 13
LF == 10

\* Py_ISSPACE: the bytes bytes.fromhex skips between two-digit groups
AsciiSpace == {9, 10, 11, 12, 13, 32}

OK == <<79, 75>>          \* b"OK"
IllegalFunc == <<48, 49>> \* b"01"

Last2(s) == IF Len(s) >= 2 THEN SubSeq(s, Len(s) - 1, Len(s)) ELSE s

---------------------------------------------------------------------------
(* LRC *)

RECURSIVE sum(_)
sum(s) == IF s = <<>> THEN 0 ELSE Head(s) + sum(Tail(s))

calc_lrc_OnesComplement(payload) == 255 - (sum(payload) % 256)

\* (-sum(payload)) & 0xFF
calc_lrc(payload) == (0 - sum(payload)) % 256

---------------------------------------------------------------------------
(* ASCII framing *)

HexDigit_Lower(n) == IF n < 10 THEN 48 + n ELSE 87 + n

\* one digit of f"{b:02X}" / bytes.hex().upper()
HexDigit(n) == IF n < 10 THEN 48 + n ELSE 55 + n

Hex2(b) == <<HexDigit(b \div 16), HexDigit(b % 16)>>

RECURSIVE hex(_)
hex(s) == IF s = <<>> THEN <<>> ELSE Hex2(Head(s)) \o hex(Tail(s))

\* value of one hex digit as bytes.fromhex reads it (either case), -1 if none
HexValue(c) ==
    IF c >= 48 /\ c <= 57 THEN c - 48
    ELSE IF c >= 65 /\ c <= 70 THEN c - 55
    ELSE IF c >= 97 /\ c <= 102 THEN c - 87
    ELSE -1

ValueError(msg) == [kind |-> "ValueError", msg |-> msg]

\* bytes.fromhex: white space is skipped before each two-digit group
RECURSIVE fromhex(_)
fromhex(s) ==
    IF s = <<>> THEN [kind |-> "ok", raw |-> <<>>]
    ELSE IF Head(s) \in AsciiSpace THEN fromhex(Tail(s))
    ELSE IF Len(s) < 2 \/ HexValue(s[1]) < 0 \/ HexValue(s[2]) < 0
         THEN ValueError("non-hexadecimal number found in fromhex()")
    ELSE LET rest == fromhex(SubSeq(s, 3, Len(s)))
         IN  IF rest.kind = "ok"
             THEN [kind |-> "ok",
                   raw |-> <<16 * HexValue(s[1]) + HexValue(s[2])>> \o rest.raw]
             ELSE rest

build_ascii_frame(addr, func, data) ==
    IF ~(0 <= addr /\ addr <= 247)
    THEN ValueError("Address must be in 0-247")
    ELSE IF func \notin 0..255
    THEN ValueError("bytes must be in range(0, 256)")
    ELSE LET payload == <<addr, func>> \o data
             lrc == calc_lrc(payload)
         IN  [kind |-> "ok",
              frame |-> <<Colon>> \o hex(payload) \o Hex2(lrc) \o <<CR, LF>>]

BadLength_ShortOnly(hex_body) == Len(hex_body) < 6

\* len(hex_body) < 6 or len(hex_body) % 2
BadLength(hex_body) == Len(hex_body) < 6 \/ Len(hex_body) % 2 = 1

LrcError_Never(raw) == Len(raw) < 3

\* lrc_rx is None or calc_lrc(raw[:-1]) != lrc_rx
LrcError(raw) ==
    Len(raw) < 3 \/ calc_lrc(SubSeq(raw, 1, Len(raw) - 1)) # raw[Len(raw)]

parse_ascii_frame_DataWithLrc(frame) ==
    IF ~(Len(frame) >= 3 /\ frame[1] = Colon /\ Last2(frame) = <<CR, LF>>)
    THEN ValueError("Bad frame delimiters")
    ELSE LET hex_body == SubSeq(frame, 2, Len(frame) - 2)
         IN  IF \E i \in 1..Len(hex_body) : hex_body[i] >= 128
             THEN ValueError("hex body is not ASCII")
             ELSE IF BadLength(hex_body)
             THEN ValueError("Bad frame length")
             ELSE LET dec == fromhex(hex_body)
                  IN  IF dec.kind # "ok" THEN dec
                      ELSE IF Len(dec.raw) < 2
                      THEN ValueError("not enough values to unpack")
                      ELSE LET raw == dec.raw
                               rest == SubSeq(raw, 3, Len(raw))
                           IN  IF LrcError(raw)
                               THEN ValueError("LRC error")
                               ELSE [kind |-> "ok", addr |-> raw[1],
                                     func |-> raw[2],
                                     data |-> rest]

\* frame[1:-2].decode() raises UnicodeDecodeError, a ValueError, on bytes
\* that are not UTF-8; bytes >= 128 that are UTF-8 fail in the length test or
\* in bytes.fromhex instead: a ValueError in every case.
parse_ascii_frame(frame) ==
    IF ~(Len(frame) >= 3 /\ frame[1] = Colon /\ Last2(frame) = <<CR, LF>>)
    THEN ValueError("Bad frame delimiters")
    ELSE LET hex_body == SubSeq(frame, 2, Len(frame) - 2)
         IN  IF \E i \in 1..Len(hex_body) : hex_body[i] >= 128
             THEN ValueError("hex body is not ASCII")
             ELSE IF BadLength(hex_body)
             THEN ValueError("Bad frame length")
             ELSE LET dec == fromhex(hex_body)
                  IN  IF dec.kind # "ok" THEN dec
                      ELSE IF Len(dec.raw) < 2
                      THEN ValueError("not enough values to unpack")
                      ELSE LET raw == dec.raw
                               rest == SubSeq(raw, 3, Len(raw))
                           IN  IF LrcError(raw)
                               THEN ValueError("LRC error")
                               ELSE [kind |-> "ok", addr |-> raw[1],
                                     func |-> raw[2],
                                     data |-> SubSeq(rest, 1, Len(rest) - 1)]

---------------------------------------------------------------------------
(* Bounds of the model and the inputs it draws *)

MaxTime == 3        \* the clock of a slave run stops advancing here
MaxFrames == 2      \* frames the rest of the bus sends to a listening slave
MasterMaxTime == 13 \* the clock of a master run stops advancing here
MaxReplies == 1     \* byte strings the bus sends towards a master
ReadTimeout == 1    \* serial.Serial.timeout = 0.1 s

None == -1          \* Optional[float] = None

\* --char-gap values tried (ticks): 0 s, 0.1 s, 0.2 s
CharGaps == {0, 1, 2}

\* --addr values a slave is started with; the CLI checks none of them
SlaveAddrs == {0, 5, 250}

\* address, function and data bytes seen in frames on the bus
OtherAddrs == {9}
BusFuncs == {1, 2, 3}
Texts == {<<>>, <<72>>, <<72, 73>>}

---------------------------------------------------------------------------
(* Slave *)

\* sp.write(data) as seen from the slave: one more frame on its transmit side
SlaveWrite(s, data) == [s EXCEPT !.tx = Append(@, data)]

\* an exception that leaves slave_loop ends the process
SlaveRaise(s, e) == [s EXCEPT !.pc = "crashed", !.error = e.kind]

\* build a reply and write it; build_ascii_frame may raise
SlaveReply(s, func, data) ==
    LET resp == build_ascii_frame(s.addr, func, data)
    IN  IF resp.kind = "ok"
        THEN [SlaveWrite(s, resp.frame) EXCEPT !.buffer = <<>>]
        ELSE SlaveRaise(s, resp)

\* func | 0x80 for a byte
Or80(func) == IF func >= 128 THEN func ELSE func + 128

\* except ValueError: log, drop the buffer, no reply
InvalidFrame_Nak(s) ==
    [SlaveWrite(s, <<Colon, CR, LF>>) EXCEPT !.buffer = <<>>,
                                             !.log = "Invalid frame"]

InvalidFrame_Uncaught(s) == [s EXCEPT !.pc = "crashed", !.error = "ValueError"]

InvalidFrame(s) == [s EXCEPT !.buffer = <<>>, !.log = "Invalid frame"]

\* a not in (0, addr) is what makes the slave ignore a frame
ForUs_Any(a, addr) == TRUE

ForUs(a, addr) == a \in {0, addr}

WriteText_NoStore(r, p) ==
    IF p.addr # 0 THEN SlaveReply(r, 1, OK) ELSE [r EXCEPT !.buffer = <<>>]

WriteText_AckOnChange(r, p) ==
    LET w == [r EXCEPT !.stored_text = p.data]
    IN  IF p.addr # 0 /\ p.data # r.stored_text
        THEN SlaveReply(w, 1, OK)
        ELSE [w EXCEPT !.buffer = <<>>]

\* func == 0x01
WriteText(r, p) ==
    LET w == [r EXCEPT !.stored_text = p.data]
    IN  IF p.addr # 0
        THEN SlaveReply(w, 1, OK)
        ELSE [w EXCEPT !.buffer = <<>>]

ReadText_Broadcast(r, p) == SlaveReply(r, 2, r.stored_text)

\* func == 0x02
ReadText(r, p) ==
    IF p.addr = 0
    THEN [r EXCEPT !.buffer = <<>>]
    ELSE SlaveReply(r, 2, r.stored_text)

\* any other function code
Unsupported(r, p) ==
    IF p.addr # 0
    THEN SlaveReply(r, Or80(p.func), IllegalFunc)
    ELSE [r EXCEPT !.buffer = <<>>]

maybe_process_frame(s) ==
    IF s.buffer = <<>> THEN s
    ELSE LET p == parse_ascii_frame(s.buffer)
         IN  IF p.kind # "ok" THEN InvalidFrame(s)
             ELSE LET r == [s EXCEPT !.log = "RX"]
                  IN  IF ~ForUs(p.addr, r.addr)
                      THEN [r EXCEPT !.buffer = <<>>]
                      ELSE IF p.func = 1 THEN WriteText(r, p)
                      ELSE IF p.func = 2 THEN ReadText(r, p)
                      ELSE Unsupported(r, p)

\* Python truth value of last_byte_time
Truthy(t) == t # None /\ t # 0

\* one iteration of the receive loop starts: nothing handed off or written yet
SlaveIter(s) == [s EXCEPT !.handoff = <<>>, !.how = "none", !.tx = <<>>,
                          !.log = ""]

HandOff(s, how) ==
    maybe_process_frame([s EXCEPT !.handoff = s.buffer, !.how = how])

SlaveByte_NoTerminator(s, byte, t) ==
    [SlaveIter(s) EXCEPT !.buffer = Append(@, byte), !.last_byte_time = t]

\* sp.read(1) returned a byte
SlaveByte(s, byte, t) ==
    LET r == [SlaveIter(s) EXCEPT !.buffer = Append(@, byte),
                                  !.last_byte_time = t]
    IN  IF Last2(r.buffer) = <<CR, LF>> THEN HandOff(r, "crlf") ELSE r

\* sp.read(1) timed out
SlaveIdle_Never(s, t) == SlaveIter(s)

SlaveIdle_AnyGap(s, t) ==
    IF SlaveIter(s).buffer # <<>> THEN HandOff(SlaveIter(s), "gap")
    ELSE SlaveIter(s)

SlaveIdle(s, t) ==
    LET r == SlaveIter(s)
    IN  IF r.buffer # <<>> /\ Truthy(r.last_byte_time)
           /\ (t - r.last_byte_time) >= r.char_gap
        THEN HandOff(r, "gap") ELSE r

SlaveOff == [pc |-> "off", addr |-> 0, char_gap |-> 0, stored_text |-> <<>>,
             buffer |-> <<>>, last_byte_time |-> None, tx |-> <<>>,
             handoff |-> <<>>, how |-> "none", log |-> "", error |-> ""]

\* slave_loop entered with the CLI's addr and char_gap
slave_loop(addr, char_gap) ==
    [SlaveOff EXCEPT !.pc = "listen", !.addr = addr, !.char_gap = char_gap]

---------------------------------------------------------------------------
(* Master *)

\* --addr, --timeout (ticks), --retries and the command of a master run
MasterAddrs == {0, 9, 248}
Timeouts == {0, 1, 2}
Retries == 0..5
Commands == {[cmd |-> "read", text |-> <<>>],
             [cmd |-> "write", text |-> <<72, 73>>]}

NoResp == [kind |-> "None"]
Resp(b) == [kind |-> "bytes", bytes |-> b]

MasterOff == [pc |-> "off", addr |-> 0, cmd |-> "read", text |-> <<>>,
              timeout |-> 0, retries |-> 0, char_gap |-> 0, frame |-> <<>>,
              attempt |-> 0, resp |-> NoResp, tx |-> <<>>, buffer |-> <<>>,
              last_byte_time |-> None, deadline |-> 0, log |-> "",
              error |-> ""]

\* the process at the call of run_master(args)
MasterArgs(addr, c, timeout, retries, char_gap) ==
    [MasterOff EXCEPT !.pc = "run_master", !.addr = addr, !.cmd = c.cmd,
                      !.text = c.text, !.timeout = timeout,
                      !.retries = retries, !.char_gap = char_gap]

\* run_master up to the first call of master_transaction
run_master(m) ==
    LET data == IF m.cmd = "write" THEN m.text ELSE <<>>
        func == IF m.cmd = "write" THEN 1 ELSE 2
        built == build_ascii_frame(m.addr, func, data)
    IN  IF built.kind # "ok"
        THEN [m EXCEPT !.pc = "crashed", !.error = built.kind]
        ELSE [m EXCEPT !.pc = "transaction", !.frame = built.frame,
                       !.attempt = 0]

\* the terminal states of the for loop
Break(m) == [m EXCEPT !.pc = "done"]
Retry(m) == [m EXCEPT !.pc = "transaction", !.attempt = @ + 1,
                      !.log = "Retry"]
GiveUp(m) == [m EXCEPT !.pc = "failed",
                       !.log = "Transaction failed after retries"]

AfterAttempt_RangeRetries(m, resp) ==
    LET r == [m EXCEPT !.resp = resp]
    IN  IF resp # NoResp \/ r.addr = 0 THEN Break(r)
        ELSE IF r.attempt + 1 < r.retries THEN Retry(r)
        ELSE GiveUp(r)

AfterAttempt_RetryBroadcast(m, resp) ==
    LET r == [m EXCEPT !.resp = resp]
    IN  IF resp # NoResp THEN Break(r)
        ELSE IF r.attempt < r.retries THEN Retry(r)
        ELSE GiveUp(r)

AfterAttempt_RetryMalformed(m, resp) ==
    LET r == [m EXCEPT !.resp = resp]
    IN  IF (resp # NoResp /\ parse_ascii_frame(resp.bytes).kind = "ok")
           \/ r.addr = 0
        THEN Break(r)
        ELSE IF r.attempt < r.retries THEN Retry(r)
        ELSE GiveUp(r)

\* run_master after master_transaction returned resp: break, retry or give up
AfterAttempt(m, resp) ==
    LET r == [m EXCEPT !.resp = resp]
    IN  IF resp # NoResp \/ r.addr = 0 THEN Break(r)
        ELSE IF r.attempt < r.retries THEN Retry(r)
        ELSE GiveUp(r)

WhileDeadline_Forever(m, t) == [m EXCEPT !.pc = "receive"]

\* the while condition of master_transaction at time t
WhileDeadline(m, t) ==
    IF t < m.deadline THEN [m EXCEPT !.pc = "receive"]
    ELSE AfterAttempt(m, NoResp)

\* master_transaction up to its first read
MasterSend(m, t) ==
    WhileDeadline([m EXCEPT !.tx = Append(@, m.frame), !.buffer = <<>>,
                            !.last_byte_time = None,
                            !.deadline = t + m.timeout], t)

\* sp.read(1) returned a byte at time t
MasterByte(m, byte, t) ==
    LET r == [m EXCEPT !.buffer = Append(@, byte), !.last_byte_time = t]
    IN  IF Last2(r.buffer) = <<CR, LF>>
        THEN AfterAttempt(r, Resp(r.buffer))
        ELSE WhileDeadline(r, t)

\* sp.read(1) timed out at time t
MasterIdle(m, t) ==
    IF m.buffer # <<>> /\ Truthy(m.last_byte_time)
       /\ (t - m.last_byte_time) >= m.char_gap
    THEN AfterAttempt(m, Resp(m.buffer))
    ELSE WhileDeadline(m, t)

---------------------------------------------------------------------------
(* Command line (mode ascii) *)

\* --timeout and --char-gap are seconds in the source, ticks of 0.1 s here
MaxTimeout == 100
MaxCharGap == 10

\* command lines a user may type, accepted or not
CliTimeouts == Timeouts \cup {-1, MaxTimeout + 1}
CliRetries == Retries \cup {-1, 6}
CliCharGaps == CharGaps \cup {-1, MaxCharGap + 1}
CliCommands == Commands \cup {[cmd |-> "write", text |-> <<>>]}

\* the processes before parse_cli has run
SlaveCli(addr, char_gap) ==
    [SlaveOff EXCEPT !.pc = "parse_cli", !.addr = addr,
                     !.char_gap = char_gap]

MasterCli(addr, c, timeout, retries, char_gap) ==
    [MasterArgs(addr, c, timeout, retries, char_gap) EXCEPT !.pc = "parse_cli"]

parse_cli_AnyTimeout(role, p) ==
    IF role = "master" /\ p.retries \notin Retries
    THEN [p EXCEPT !.pc = "usage", !.error = "SystemExit"]
    ELSE IF role = "master" /\ p.cmd = "write" /\ p.text = <<>>
    THEN [p EXCEPT !.pc = "usage", !.error = "SystemExit"]
    ELSE IF ~(0 <= p.char_gap /\ p.char_gap <= MaxCharGap)
    THEN [p EXCEPT !.pc = "usage", !.error = "SystemExit"]
    ELSE [p EXCEPT !.pc = "main"]

\* parse_cli: argparse's own checks (choices of --retries), then the
\* validation block; p.error() prints the usage and exits with status 2
parse_cli(role, p) ==
    IF role = "master" /\ p.retries \notin Retries
    THEN [p EXCEPT !.pc = "usage", !.error = "SystemExit"]
    ELSE IF role = "master" /\ p.cmd = "write" /\ p.text = <<>>
    THEN [p EXCEPT !.pc = "usage", !.error = "SystemExit"]
    ELSE IF ~(0 <= p.char_gap /\ p.char_gap <= MaxCharGap)
    THEN [p EXCEPT !.pc = "usage", !.error = "SystemExit"]
    ELSE IF role = "master" /\ ~(0 <= p.timeout /\ p.timeout <= MaxTimeout)
    THEN [p EXCEPT !.pc = "usage", !.error = "SystemExit"]
    ELSE [p EXCEPT !.pc = "main"]

---------------------------------------------------------------------------
(* The codec on its own *)

IoOff == [step |-> "off", addr |-> 0, func |-> 0, data |-> <<>>,
          built |-> ValueError(""), raw |-> <<>>, parsed |-> ValueError(""),
          lrc |-> None]

\* arguments given to build_ascii_frame
IoAddrs == {-1, 0, 1, 5, 247, 248, 255}
IoFuncs == {0, 1, 2, 3, 129, 255}
IoBytes == {0, 10, 13, 58, 72, 73, 255}
MaxData == 2
IoData == UNION {[1..n -> IoBytes] : n \in 0..MaxData}

---------------------------------------------------------------------------
(* The rest of the bus *)

\* nothing sent by the bus yet, no WriteText accepted yet
EnvStart == [nsent |-> 0, written |-> <<>>, lastw |-> <<>>, times |-> 0,
             acks |-> 0, line |-> "none", stale |-> FALSE, run |-> 0, lost |-> 0,
             first |-> [pc |-> "none", resp |-> NoResp, ntx |-> 0,
                        text |-> <<>>]]

\* the wire encoding a station on the bus gives (addr, func, data)
Encode(a, f, d) ==
    <<Colon>> \o hex(<<a, f>> \o d) \o Hex2(calc_lrc(<<a, f>> \o d))
    \o <<CR, LF>>

\* damaged variants of a frame w
BadLrc(w) == [w EXCEPT ![Len(w) - 2] = IF @ = 48 THEN 49 ELSE 48]
NoColon(w) == Tail(w)
NoTerminator(w) == SubSeq(w, 1, Len(w) - 2)
LowerCase(w) == [i \in 1..Len(w) |-> IF w[i] >= 65 /\ w[i] <= 70
                                      THEN w[i] + 32 ELSE w[i]]

OnlyLF(w) == SubSeq(w, 1, Len(w) - 2) \o <<LF>>
OddBody(w) == <<Colon>> \o SubSeq(w, 3, Len(w))
ShortBody(w) == SubSeq(w, 1, 5) \o <<CR, LF>>
SpacePad(w, n) == SubSeq(w, 1, Len(w) - 2) \o [i \in 1..n |-> 32] \o <<CR, LF>>
Blank(w) == SubSeq(w, 1, 3) \o <<32, 32, 32, 32>> \o <<CR, LF>>
NonAscii(w) == [w EXCEPT ![Len(w) - 2] = 255]
NonHex(w) == [w EXCEPT ![Len(w) - 2] = 71]

\* byte strings handed to parse_ascii_frame: the frame of (a, f, d) as a
\* station sends it, and damaged or re-spelt variants of it
WireInputs(a, f, d) ==
    LET w == Encode(a % 256, f, d)
    IN  {w, BadLrc(w), NoColon(w), NoTerminator(w), LowerCase(w), OnlyLF(w),
         OddBody(w), ShortBody(w), SpacePad(w, 1), SpacePad(w, 2), Blank(w),
         NonAscii(w), NonHex(w), <<>>, <<Colon>>, <<CR, LF>>}

\* what the rest of the bus may send to a slave with address addr
BusFrames(addr) ==
    {Encode(a, f, d) : a \in {0, addr} \cup OtherAddrs, f \in BusFuncs, d \in Texts}
    \cup {BadLrc(Encode(addr, 1, <<72>>)), NoColon(Encode(addr, 1, <<72>>)),
          NoTerminator(Encode(addr, 1, <<72>>)),
          LowerCase(Encode(addr, 1, <<73>>)),
          NonAscii(Encode(addr, 1, <<72>>)), Blank(Encode(addr, 1, <<>>)),
          <<CR, LF>>, <<Colon, CR, LF>>}

\* what may arrive at a master that addressed addr
BusReplies(addr) ==
    {Encode(addr, 1, OK), BadLrc(Encode(addr, 1, OK)),
     NoTerminator(Encode(addr, 2, <<72>>)), <<CR, LF>>, <<48>>}

\* the run of hand-offs of one and the same unicast WriteText frame for the
\* slave's address: the frame, how often it was handed over in a row, and how
\* many of these hand-overs made the slave write the acknowledgement
ObserveRow(e, s) ==
    LET p == parse_ascii_frame(s.handoff)
        ack == IF s.tx = <<Encode(s.addr, 1, OK)>> THEN 1 ELSE 0
    IN  IF s.handoff = <<>> THEN e
        ELSE IF p.kind = "ok" /\ p.func = 1 /\ p.addr = s.addr /\ p.addr # 0
        THEN IF s.handoff = e.lastw
             THEN [e EXCEPT !.times = @ + 1, !.acks = @ + ack]
             ELSE [e EXCEPT !.lastw = s.handoff, !.times = 1, !.acks = ack]
        ELSE [e EXCEPT !.lastw = <<>>, !.times = 0, !.acks = 0]

\* the master transmits with an empty buffer; bytes that answered the
\* transmission before and are still on the line are late from now on
ObserveTransmit(e, w) ==
    [e EXCEPT !.stale = FALSE,
              !.line = IF @ = "fresh" /\ w # <<>> THEN "late" ELSE @]

\* the master takes a byte into its buffer, leaving rest on the line: the byte
\* is stale when the bytes on the line answer a transmission before the
\* latest one
ObserveReply(e, rest) ==
    [e EXCEPT !.stale = @ \/ e.line = "late",
              !.line = IF rest = <<>> THEN "none" ELSE @]

\* the data of the latest WriteText the slave was handed for 0 or its address
Observe(e, s) ==
    LET p == parse_ascii_frame(s.handoff)
    IN  IF s.handoff # <<>> /\ p.kind = "ok" /\ p.func = 1
           /\ p.addr \in {0, s.addr}
        THEN [ObserveRow(e, s) EXCEPT !.written = p.data]
        ELSE ObserveRow(e, s)

---------------------------------------------------------------------------
(* A slave listening on a bus *)

InitSlave ==
    /\ now = 1
    /\ \E a \in SlaveAddrs, g \in CliCharGaps : slave = SlaveCli(a, g)
    /\ master = MasterOff
    /\ wire = [slave |-> <<>>, master |-> <<>>]
    /\ io = IoOff
    /\ env = EnvStart

\* __main__ for role slave: parse_cli, then slave_loop on the opened port
SlaveStart ==
    /\ slave.pc = "parse_cli"
    /\ slave' = LET args == parse_cli("slave", slave)
                IN  IF args.pc = "usage" THEN args
                    ELSE slave_loop(args.addr, args.char_gap)
    /\ UNCHANGED <<now, master, wire, io, env>>

\* a station puts a frame on the line towards the slave
BusSend ==
    /\ slave.pc = "listen"
    /\ wire.slave = <<>>
    /\ env.nsent < MaxFrames
    /\ \E w \in BusFrames(slave.addr) : wire' = [wire EXCEPT !.slave = w]
    /\ env' = [env EXCEPT !.nsent = @ + 1]
    /\ UNCHANGED <<now, slave, master, io>>

\* loop iteration in which sp.read(1) returns the next byte after d ticks
SlaveReadByte ==
    /\ slave.pc = "listen"
    /\ wire.slave # <<>>
    /\ \E d \in 0..ReadTimeout :
         /\ now + d <= MaxTime
         /\ now' = now + d
         /\ slave' = SlaveByte(slave, Head(wire.slave), now + d)
    /\ wire' = [wire EXCEPT !.slave = Tail(@)]
    /\ env' = Observe(env, slave')
    /\ UNCHANGED <<master, io>>

\* loop iteration in which sp.read(1) returns b"" after the read timeout
SlaveReadTimeout ==
    /\ slave.pc = "listen"
    /\ now + ReadTimeout <= MaxTime
    /\ now' = now + ReadTimeout
    /\ slave' = SlaveIdle(slave, now + ReadTimeout)
    /\ env' = Observe(env, slave')
    /\ UNCHANGED <<master, wire, io>>

NextSlave == SlaveStart \/ BusSend \/ SlaveReadByte \/ SlaveReadTimeout

SpecSlave == InitSlave /\ [][NextSlave]_vars

---------------------------------------------------------------------------
(* A slave listening for as long as it takes: the clock is kept relative *)

LiveCharGaps == {0, 1, 2, MaxCharGap}

\* what the bus sends here: whole frames and pieces that never end
LiveFrames(addr) ==
    {Encode(addr, 1, <<72>>), BadLrc(Encode(addr, 1, <<72>>)),
     NoTerminator(Encode(addr, 1, <<72>>)), <<Colon>>, <<CR>>, <<CR, LF>>}

\* now - last_byte_time is all the loop uses of the two clocks, and it is
\* compared with a char_gap of at most MaxCharGap: the time since the last
\* byte is kept up to MaxCharGap + 1, counted from last_byte_time = 1
Elapsed(s, t) ==
    IF s.last_byte_time = None THEN 0
    ELSE IF t - s.last_byte_time > MaxCharGap THEN MaxCharGap + 1
    ELSE t - s.last_byte_time

Rebase(s) ==
    [s EXCEPT !.last_byte_time = IF @ = None THEN None ELSE 1]

InitSlaveLive ==
    /\ now = 1
    /\ \E a \in SlaveAddrs, g \in LiveCharGaps : slave = SlaveCli(a, g)
    /\ master = MasterOff
    /\ wire = [slave |-> <<>>, master |-> <<>>]
    /\ io = IoOff
    /\ env = EnvStart

BusSendLive ==
    /\ slave.pc = "listen"
    /\ wire.slave = <<>>
    /\ env.nsent < MaxFrames
    /\ \E w \in LiveFrames(slave.addr) : wire' = [wire EXCEPT !.slave = w]
    /\ env' = [env EXCEPT !.nsent = @ + 1]
    /\ UNCHANGED <<now, slave, master, io>>

\* loop iteration in which sp.read(1) returns the next byte after d ticks
SlaveReadByteLive ==
    /\ slave.pc = "listen"
    /\ wire.slave # <<>>
    /\ \E d \in 0..ReadTimeout :
         LET r == SlaveByte(slave, Head(wire.slave), now + d)
         IN  /\ slave' = Rebase(r)
             /\ now' = 1 + Elapsed(r, now + d)
    /\ wire' = [wire EXCEPT !.slave = Tail(@)]
    /\ env' = Observe(env, slave')
    /\ UNCHANGED <<master, io>>

\* loop iteration in which sp.read(1) returns b"" after the read timeout
SlaveReadTimeoutLive ==
    /\ slave.pc = "listen"
    /\ LET r == SlaveIdle(slave, now + ReadTimeout)
       IN  /\ slave' = Rebase(r)
           /\ now' = 1 + Elapsed(r, now + ReadTimeout)
    /\ env' = Observe(env, slave')
    /\ UNCHANGED <<master, wire, io>>

NextSlaveLive ==
    SlaveStart \/ BusSendLive \/ SlaveReadByteLive \/ SlaveReadTimeoutLive

\* the loop keeps polling: a sp.read(1) for which no byte arrives returns
\* after its 0.1 s, and the loop comes round to the next read
SpecSlaveLive ==
    InitSlaveLive /\ [][NextSlaveLive]_vars /\ WF_vars(SlaveReadTimeoutLive)

---------------------------------------------------------------------------
(* A master running one transaction *)

InitMaster ==
    /\ now = 1
    /\ slave = SlaveOff
    /\ \E a \in MasterAddrs, c \in CliCommands, t \in CliTimeouts,
          r \in CliRetries, g \in CliCharGaps :
         master = MasterCli(a, c, t, r, g)
    /\ wire = [slave |-> <<>>, master |-> <<>>]
    /\ io = IoOff
    /\ env = EnvStart

\* __main__ for role master: parse_cli, then the call of run_master
MasterParseCli ==
    /\ master.pc = "parse_cli"
    /\ master' = LET args == parse_cli("master", master)
                 IN  IF args.pc = "usage" THEN args
                     ELSE MasterArgs(args.addr,
                                     [cmd |-> args.cmd, text |-> args.text],
                                     args.timeout, args.retries, args.char_gap)
    /\ UNCHANGED <<now, slave, wire, io, env>>

\* run_master builds the request and opens the port
MasterStart ==
    /\ master.pc = "run_master"
    /\ master' = run_master(master)
    /\ UNCHANGED <<now, slave, wire, io, env>>

\* master_transaction writes the request and sets the deadline; sp.flush()
\* waits for the output and leaves the bytes already received where they are
MasterTransmit ==
    /\ master.pc = "transaction"
    /\ master' = MasterSend(master, now)
    /\ env' = ObserveTransmit(env, wire.master)
    /\ UNCHANGED <<now, slave, wire, io>>

\* iteration of the while loop in which sp.read(1) returns a byte
MasterReadByte ==
    /\ master.pc = "receive"
    /\ wire.master # <<>>
    /\ \E d \in 0..ReadTimeout :
         /\ now + d <= MasterMaxTime
         /\ now' = now + d
         /\ master' = MasterByte(master, Head(wire.master), now + d)
    /\ wire' = [wire EXCEPT !.master = Tail(@)]
    /\ env' = ObserveReply(env, Tail(wire.master))
    /\ UNCHANGED <<slave, io>>

\* iteration of the while loop in which sp.read(1) times out
MasterReadTimeout ==
    /\ master.pc = "receive"
    /\ now + ReadTimeout <= MasterMaxTime
    /\ now' = now + ReadTimeout
    /\ master' = MasterIdle(master, now + ReadTimeout)
    /\ UNCHANGED <<slave, wire, io, env>>

\* bytes are put on the line towards the master
BusReply ==
    /\ master.pc \in {"transaction", "receive"}
    /\ wire.master = <<>>
    /\ env.nsent < MaxReplies
    /\ \E w \in BusReplies(master.addr) : wire' = [wire EXCEPT !.master = w]
    /\ env' = [env EXCEPT !.nsent = @ + 1,
                          !.line = IF master.tx = <<>> THEN "noise"
                                   ELSE "fresh"]
    /\ UNCHANGED <<now, slave, master, io>>

NextMaster ==
    MasterParseCli \/ MasterStart \/ MasterTransmit \/ MasterReadByte \/ MasterReadTimeout
    \/ BusReply

SpecMaster == InitMaster /\ [][NextMaster]_vars

\* the master process runs: every sp.read(1) returns, with a byte or after
\* its 0.1 s, and the statements between two reads take their turn
MasterStep ==
    MasterParseCli \/ MasterStart \/ MasterTransmit \/ MasterReadByte
    \/ MasterReadTimeout

\* command lines of a read with few or many retries, accepted or not
InitMasterLive ==
    /\ now = 1
    /\ slave = SlaveOff
    /\ \E a \in MasterAddrs, t \in CliTimeouts, r \in {0, 1, 5, 6},
          g \in {0, 2} :
         master = MasterCli(a, [cmd |-> "read", text |-> <<>>], t, r, g)
    /\ wire = [slave |-> <<>>, master |-> <<>>]
    /\ io = IoOff
    /\ env = EnvStart

SpecMasterLive == InitMasterLive /\ [][NextMaster]_vars /\ WF_vars(MasterStep)

---------------------------------------------------------------------------
(* build_ascii_frame and parse_ascii_frame applied to drawn arguments *)

InitCodec ==
    /\ now = 1
    /\ slave = SlaveOff
    /\ master = MasterOff
    /\ wire = [slave |-> <<>>, master |-> <<>>]
    /\ \E a \in IoAddrs, f \in IoFuncs, d \in IoData :
         io = [IoOff EXCEPT !.step = "args", !.addr = a, !.func = f,
                            !.data = d]
    /\ env = EnvStart

Build ==
    /\ io.step = "args"
    /\ io' = [io EXCEPT !.step = "built",
                        !.built = build_ascii_frame(io.addr, io.func, io.data)]
    /\ UNCHANGED <<now, slave, master, wire, env>>

Parse ==
    /\ io.step = "built"
    /\ io.built.kind = "ok"
    /\ io' = [io EXCEPT !.step = "parsed",
                        !.parsed = parse_ascii_frame(io.built.frame)]
    /\ UNCHANGED <<now, slave, master, wire, env>>

\* parse_ascii_frame applied to bytes as they may arrive
ParseWire ==
    /\ io.step = "built"
    /\ \E w \in WireInputs(io.addr, io.func, io.data) :
         io' = [io EXCEPT !.step = "wire", !.raw = w,
                          !.parsed = parse_ascii_frame(w)]
    /\ UNCHANGED <<now, slave, master, wire, env>>

\* calc_lrc applied to the data bytes
Checksum ==
    /\ io.step = "args"
    /\ io' = [io EXCEPT !.step = "lrc", !.lrc = calc_lrc(io.data)]
    /\ UNCHANGED <<now, slave, master, wire, env>>

NextCodec == Build \/ Parse \/ ParseWire \/ Checksum

SpecCodec == InitCodec /\ [][NextCodec]_vars

---------------------------------------------------------------------------
(* A master and a slave on one line: a write run, then a read run.  The line
   corrupts nothing and delivers the bytes of a frame back to back: a read
   times out only when nothing is on its way to the reader. *)

MaxLost == 1

SysAddrs == {5, 247}
SysGaps == {0, 2}
SysRetries == {0, 1, 2}
SysTexts == {<<72>>, <<72, 73>>}

InitSystem ==
    /\ now = 1
    /\ \E a \in SysAddrs, gs \in SysGaps, gm \in SysGaps, t \in Timeouts,
          r \in SysRetries, T \in SysTexts :
         /\ slave = SlaveCli(a, gs)
         /\ master = MasterCli(a, [cmd |-> "write", text |-> T], t, r, gm)
    /\ wire = [slave |-> <<>>, master |-> <<>>]
    /\ io = IoOff
    /\ env = [EnvStart EXCEPT !.run = 1]

\* the master is started once the slave listens
SysMasterParseCli ==
    /\ slave.pc = "listen"
    /\ MasterParseCli

\* sp.write(frame) puts the request on the line to the slave
SysTransmit ==
    /\ master.pc = "transaction"
    /\ master' = MasterSend(master, now)
    /\ wire' = [wire EXCEPT !.slave = @ \o master.frame]
    /\ env' = ObserveTransmit(env, wire.master)
    /\ UNCHANGED <<now, slave, io>>

\* the slave reads the next byte; what it writes goes on the line to the
\* master, unless the line loses that reply
SysSlaveRead ==
    /\ slave.pc = "listen"
    /\ wire.slave # <<>>
    /\ slave' = SlaveByte(slave, Head(wire.slave), now)
    /\ \E lose \in BOOLEAN :
         /\ lose => (slave'.tx # <<>> /\ env.lost < MaxLost)
         /\ wire' = [slave |-> Tail(wire.slave),
                     master |-> IF lose \/ slave'.tx = <<>> THEN wire.master
                                ELSE wire.master \o slave'.tx[1]]
         /\ env' = [Observe(env, slave') EXCEPT
                      !.lost = IF lose THEN @ + 1 ELSE @]
    /\ UNCHANGED <<now, master, io>>

\* the master reads the next byte
SysMasterRead ==
    /\ master.pc = "receive"
    /\ wire.master # <<>>
    /\ master' = MasterByte(master, Head(wire.master), now)
    /\ wire' = [wire EXCEPT !.master = Tail(@)]
    /\ env' = ObserveReply(env, Tail(wire.master))
    /\ UNCHANGED <<now, slave, io>>

\* nothing is on its way: the reads of both stations time out
SysTick ==
    /\ master.pc = "receive"
    /\ wire.master = <<>>
    /\ slave.pc = "listen" => wire.slave = <<>>
    /\ now' = now + ReadTimeout
    /\ master' = MasterIdle(master, now + ReadTimeout)
    /\ slave' = IF slave.pc = "listen" THEN SlaveIdle(slave, now + ReadTimeout)
                ELSE slave
    /\ env' = Observe(env, slave')
    /\ UNCHANGED <<wire, io>>

\* the write run is over: the user runs the read command with the same options
SysNextRun ==
    /\ env.run = 1
    /\ master.pc \in {"done", "failed"}
    /\ master' = MasterCli(master.addr, [cmd |-> "read", text |-> <<>>],
                           master.timeout, master.retries, master.char_gap)
    /\ env' = [env EXCEPT !.run = 2,
                          !.first = [pc |-> master.pc, resp |-> master.resp,
                                     ntx |-> Len(master.tx),
                                     text |-> master.text]]
    /\ UNCHANGED <<now, slave, wire, io>>

NextSystem ==
    SlaveStart \/ SysMasterParseCli \/ MasterStart \/ SysTransmit
    \/ SysSlaveRead \/ SysMasterRead \/ SysTick \/ SysNextRun

SpecSystem == InitSystem /\ [][NextSystem]_vars

---------------------------------------------------------------------------
(* The program started in either role *)

\* a slave with address 5, or a master with a read command
InitMain == (InitSlave /\ slave.addr = 5) \/ InitMasterLive

NextMain == NextSlave \/ NextMaster

SpecMain == InitMain /\ [][NextMain]_vars

---------------------------------------------------------------------------
(* Properties *)

\* what the slave's latest hand-off parsed to
Parsed(s) == parse_ascii_frame(s.handoff)
HandedOk(s) == s.handoff # <<>> /\ Parsed(s).kind = "ok"
HandedBad(s) == s.handoff # <<>> /\ Parsed(s).kind # "ok"

\* the master's run is over
Terminal(m) == m.pc \in {"done", "failed"}
MasterFunc(m) == IF m.cmd = "write" THEN 1 ELSE 2
MasterData(m) == IF m.cmd = "write" THEN m.text ELSE <<>>

\* C1: for every address in 0..247, function byte in 0..255 and data,
\* build_ascii_frame succeeds and parse_ascii_frame of its result returns
\* exactly (address, function, data).
C1_RoundTrip ==
    /\ (io.step \in {"built", "parsed"} /\ io.addr \in 0..247
        /\ io.func \in 0..255) => io.built.kind = "ok"
    /\ io.step = "parsed" =>
         io.parsed = [kind |-> "ok", addr |-> io.addr, func |-> io.func,
                      data |-> io.data]

C1_Witness ==
    /\ io.step = "parsed"
    /\ io.addr = 247 /\ io.func = 255 /\ io.data = <<CR, LF>>
    /\ io.parsed.kind = "ok"

\* C2: a master that addressed a station other than 0 and assembled no frame
\* in any attempt ends after exactly retries + 1 transmissions, all of them
\* the request frame, in the "Transaction failed after retries" outcome; that
\* outcome occurs in no other case, and never more than retries + 1
\* transmissions are made.
C2_UnicastNoResponse ==
    /\ (Terminal(master) /\ master.addr # 0 /\ master.resp = NoResp) =>
         /\ Len(master.tx) = master.retries + 1
         /\ \A i \in 1..Len(master.tx) :
              master.tx[i] = Encode(master.addr, MasterFunc(master),
                                    MasterData(master))
         /\ master.pc = "failed"
         /\ master.log = "Transaction failed after retries"
    /\ master.pc = "failed" => (master.addr # 0 /\ master.resp = NoResp)
    /\ Len(master.tx) <= master.retries + 1

C2_Witness ==
    /\ master.pc = "failed"
    /\ master.addr = 9 /\ master.retries = 2 /\ master.timeout = 2
    /\ Len(master.tx) = 3

\* C3 as stated: a master that addressed 0 ends after exactly one
\* transmission, for every retries, in the success outcome with no response,
\* whether or not bytes were received.
C3_BroadcastNoResponse ==
    (Terminal(master) /\ master.addr = 0) =>
        /\ Len(master.tx) = 1
        /\ master.pc = "done"
        /\ master.resp = NoResp

\* C3 amended: a master that addressed 0 makes exactly one transmission, for
\* every retries, and ends in the success outcome, never the failure one;
\* the response is absent unless the bytes received in that one attempt were
\* assembled into a frame, which is then the response.
C3_BroadcastOnce ==
    master.addr = 0 =>
        /\ Len(master.tx) <= 1
        /\ master.pc # "failed"
        /\ master.log = ""
        /\ Terminal(master) =>
             /\ Len(master.tx) = 1
             /\ master.pc = "done"
             /\ master.attempt = 0
             /\ master.resp \in {NoResp, Resp(master.buffer)}
             /\ master.buffer = <<>> => master.resp = NoResp

C3_Witness ==
    /\ master.pc = "done"
    /\ master.addr = 0 /\ master.retries = 5 /\ master.timeout = 2
    /\ master.resp = NoResp
    /\ master.buffer # <<>>
    /\ Len(master.tx) = 1

\* C4: a successfully parsed frame with function 1 for address 0 or the
\* station's own address makes the stored text exactly the frame's data; for
\* the own, non-zero address the slave transmits exactly the frame
\* (ownAddress, 1, "OK"), for address 0 it transmits nothing.
C4_WriteText ==
    (HandedOk(slave) /\ Parsed(slave).func = 1
     /\ Parsed(slave).addr \in {0, slave.addr}) =>
        /\ slave.stored_text = Parsed(slave).data
        /\ Parsed(slave).addr # 0 =>
             slave.tx = <<Encode(slave.addr, 1, OK)>>
        /\ Parsed(slave).addr = 0 => slave.tx = <<>>

\* C5: a successfully parsed frame with function 2 for the station's own,
\* non-zero address makes the slave transmit exactly the frame
\* (ownAddress, 2, T), T the data of the latest accepted WriteText or empty,
\* and leaves the stored text unchanged.
C5_ReadText ==
    /\ [](slave.stored_text = env.written)
    /\ [][(HandedOk(slave') /\ Parsed(slave').func = 2
           /\ Parsed(slave').addr = slave'.addr /\ slave'.addr # 0) =>
            /\ slave'.tx = <<Encode(slave'.addr, 2, env.written)>>
            /\ slave'.stored_text = slave.stored_text]_vars

\* C6: a successfully parsed frame with address 0 and function 2 makes the
\* slave transmit nothing and leaves the stored text unchanged.
C6_ReadBroadcast ==
    [][(HandedOk(slave') /\ Parsed(slave').addr = 0
        /\ Parsed(slave').func = 2) =>
         /\ slave'.tx = <<>>
         /\ slave'.stored_text = slave.stored_text]_vars

C6_Witness ==
    /\ HandedOk(slave)
    /\ Parsed(slave).addr = 0 /\ Parsed(slave).func = 2
    /\ slave.addr = 5
    /\ slave.stored_text # <<>>
    /\ slave.tx = <<>>

\* C7: a successfully parsed frame whose address is neither 0 nor the
\* station's own makes the slave transmit nothing and leaves the stored text
\* unchanged, whatever its function code and data.
C7_AddressFilter ==
    [][(HandedOk(slave') /\ Parsed(slave').addr \notin {0, slave'.addr}) =>
         /\ slave'.tx = <<>>
         /\ slave'.stored_text = slave.stored_text]_vars

C7_Witness ==
    /\ HandedOk(slave)
    /\ Parsed(slave).addr = 9 /\ Parsed(slave).func = 1
    /\ Parsed(slave).data = <<72, 73>>
    /\ slave.addr = 5
    /\ slave.stored_text = <<72>>
    /\ slave.tx = <<>>

\* C8: a successfully parsed frame with a function code other than 1 and 2
\* for the station's own, non-zero address makes the slave transmit exactly
\* the frame (ownAddress, function | 0x80, "01") and leaves the stored text
\* unchanged; with address 0 the slave transmits nothing.
C8_Unsupported ==
    [][(HandedOk(slave') /\ Parsed(slave').func \notin {1, 2}) =>
         /\ (Parsed(slave').addr = slave'.addr /\ slave'.addr # 0) =>
              /\ slave'.tx = <<Encode(slave'.addr, Or80(Parsed(slave').func),
                                      IllegalFunc)>>
              /\ slave'.stored_text = slave.stored_text
         /\ Parsed(slave').addr = 0 => slave'.tx = <<>>]_vars

\* C9: a loop iteration of the slave transmits at most one frame, and none
\* unless it handed a buffer off; it transmits nothing for a hand-off that
\* fails to parse, which also leaves the stored text unchanged, and nothing
\* for a frame with address 0.
C9_Reactive ==
    [][/\ Len(slave'.tx) <= 1
       /\ slave'.handoff = <<>> =>
            (slave'.tx = <<>> /\ slave'.stored_text = slave.stored_text)
       /\ HandedBad(slave') =>
            (slave'.tx = <<>> /\ slave'.stored_text = slave.stored_text)
       /\ (HandedOk(slave') /\ Parsed(slave').addr = 0) =>
            slave'.tx = <<>>]_vars

C9_Witness ==
    /\ HandedBad(slave)
    /\ slave.how = "crlf"
    /\ Parsed(slave).msg = "LRC error"
    /\ slave.stored_text # <<>>
    /\ slave.tx = <<>>
    /\ slave.pc = "listen"

\* C10: once a receive attempt of a master has assembled a frame, by
\* terminator or by gap, valid or malformed, the run is over and no further
\* transmission is made, whatever retries is.
C10_StopOnFrame ==
    /\ [](master.resp # NoResp =>
            (master.pc = "done" /\ Len(master.tx) = master.attempt + 1))
    /\ [][master.resp # NoResp => master'.tx = master.tx]_vars

C10_Witness ==
    /\ master.resp # NoResp
    /\ parse_ascii_frame(master.resp.bytes).kind # "ok"
    /\ Last2(master.resp.bytes) # <<CR, LF>>
    /\ master.addr = 9 /\ master.retries = 5 /\ master.attempt = 1
    /\ Len(master.tx) = 2
    /\ master.pc = "done"

\* C11: when the master assembled a frame before the deadline, the
\* transaction succeeds if the assembled bytes parse to (address, function,
\* data) and ends in a framing or checksum error if they do not: a malformed
\* reply is never a successful response.
C11_ParsedReply ==
    master.resp # NoResp =>
      LET p == parse_ascii_frame(master.resp.bytes)
      IN  /\ p.kind = "ok" => master.pc = "done"
          /\ p.kind # "ok" => (master.pc # "done" /\ master.error = p.kind)

---------------------------------------------------------------------------
(* Codec laws *)

\* the input has no ':' in front or no CR LF at the end
BadDelimiters(w) ==
    \/ Len(w) < 2
    \/ w[1] # Colon
    \/ w[Len(w) - 1] # CR
    \/ w[Len(w)] # LF

\* the number of characters between the marker and the terminator
BodyLen(w) == Len(w) - 3

BadFraming(w) == BadDelimiters(w) \/ BodyLen(w) < 6 \/ BodyLen(w) % 2 = 1

\* the bytes the hex body of a well framed input stands for
Decoded(w) == fromhex(SubSeq(w, 2, Len(w) - 2))

Front(raw) == SubSeq(raw, 1, Len(raw) - 1)

\* C12: parse_ascii_frame returns no triple for an input that does not start
\* with ':' or does not end with CR LF, whatever it holds, nor for an input
\* whose hex body has odd length or fewer than 6 characters.
C12_RejectsBadFraming ==
    (io.step = "wire" /\ BadFraming(io.raw)) => io.parsed.kind = "ValueError"

C12_Witness ==
    /\ io.step = "wire"
    /\ io.raw = SpacePad(Encode(5, 1, <<72>>), 1)
    /\ io.parsed = ValueError("Bad frame length")

\* C13: a well framed input whose last decoded byte is not calc_lrc of the
\* decoded bytes before it is rejected, and a triple is returned only when the
\* last decoded byte is that checksum (the triple being the bytes before it).
C13_RejectsBadChecksum ==
    io.step = "wire" =>
      /\ (/\ ~BadFraming(io.raw)
          /\ Decoded(io.raw).kind = "ok"
          /\ Len(Decoded(io.raw).raw) >= 1
          /\ LET raw == Decoded(io.raw).raw
             IN  raw[Len(raw)] # calc_lrc(Front(raw)))
         => io.parsed.kind = "ValueError"
      /\ io.parsed.kind = "ok"
         => /\ ~BadFraming(io.raw)
            /\ Decoded(io.raw).kind = "ok"
            /\ LET raw == Decoded(io.raw).raw
               IN  /\ Len(raw) >= 3
                   /\ raw[Len(raw)] = calc_lrc(Front(raw))
                   /\ Front(raw)
                        = <<io.parsed.addr, io.parsed.func>> \o io.parsed.data

C13_Witness ==
    /\ io.step = "wire"
    /\ io.raw = BadLrc(Encode(5, 1, <<72, 73>>))
    /\ ~BadFraming(io.raw)
    /\ io.parsed = ValueError("LRC error")

\* C14: a framing failure and a checksum failure of parse_ascii_frame are of
\* two different kinds, and the failure of build_ascii_frame on an address
\* outside 0..247 is of a third kind.
C14_DistinctKinds ==
    (/\ io.step = "wire"
     /\ ~BadFraming(io.raw)
     /\ io.parsed = ValueError("LRC error"))
    => LET framing == parse_ascii_frame(NoColon(io.raw))
       IN  /\ framing.kind # "ok"
           /\ io.parsed.kind # framing.kind
           /\ io.addr \notin 0..247
              => /\ io.built.kind # "ok"
                 /\ io.built.kind \notin {io.parsed.kind, framing.kind}

\* C15: calc_lrc of a byte string is a byte, and the bytes followed by it add
\* up to 0 modulo 256 (so it is (-sum) mod 256).
C15_ChecksumLaw ==
    io.step = "lrc" =>
      /\ io.lrc \in 0..255
      /\ (sum(io.data) + io.lrc) % 256 = 0
      /\ sum(Append(io.data, io.lrc)) % 256 = 0

C15_Witness == io.step = "lrc" /\ io.data = <<255, 255>> /\ io.lrc = 2

\* the characters 0-9 A-F
UpperHex == <<48, 49, 50, 51, 52, 53, 54, 55, 56, 57, 65, 66, 67, 68, 69, 70>>

\* C16: for an address in 0..247 build_ascii_frame returns ':', then two
\* upper-case hex digits for the address, the function, each data byte and
\* the checksum, then CR LF: 2*len(data) + 9 characters; and
\* build_ascii_frame(5, 1, b"HI") is ":0501484969\r\n".
C16_WireFormat ==
    (io.step \in {"built", "parsed", "wire"} /\ io.addr \in 0..247) =>
      /\ io.built.kind = "ok"
      /\ LET frame == io.built.frame
             front == <<io.addr, io.func>> \o io.data
             payload == Append(front, (256 - (sum(front) % 256)) % 256)
         IN  /\ Len(frame) = 2 * Len(io.data) + 9
             /\ Len(frame) % 2 = 1
             /\ frame[1] = Colon
             /\ frame[Len(frame) - 1] = CR
             /\ frame[Len(frame)] = LF
             /\ \A k \in 1..Len(payload) :
                  /\ frame[2 * k] = UpperHex[(payload[k] \div 16) + 1]
                  /\ frame[2 * k + 1] = UpperHex[(payload[k] % 16) + 1]
      /\ (io.addr = 5 /\ io.func = 1 /\ io.data = <<72, 73>>)
         => io.built.frame
              = <<58, 48, 53, 48, 49, 52, 56, 52, 57, 54, 57, 13, 10>>

C16_Witness ==
    /\ io.step = "built"
    /\ io.addr = 5 /\ io.func = 1 /\ io.data = <<72, 73>>
    /\ io.built.kind = "ok"
    /\ Len(io.built.frame) = 13

---------------------------------------------------------------------------
(* Command line *)

\* C17: a master invoked with an address outside 0..247, a timeout outside
\* 0..10 s (100 ticks) or --retries outside 0..5 writes no byte and attempts
\* no read: it stops in parse_cli or in run_master's build_ascii_frame.
C17_ValidateFirst ==
    (/\ master.pc # "off"
     /\ \/ master.addr \notin 0..247
        \/ master.timeout \notin 0..100
        \/ master.retries \notin 0..5)
    => /\ master.tx = <<>>
       /\ master.buffer = <<>>
       /\ master.resp = NoResp
       /\ master.pc \in {"parse_cli", "run_master", "usage", "crashed"}
       /\ master.pc = "run_master" => master.addr \notin 0..247

C17_Witness ==
    /\ master.pc = "usage"
    /\ master.timeout = 101
    /\ master.addr = 9
    /\ master.retries = 0
    /\ master.char_gap = 0
    /\ master.tx = <<>>

---------------------------------------------------------------------------
(* The slave's robustness, repeated writes and address *)

\* C18: a slave with an address in 1..247 never leaves the listening loop
\* with an error, whatever bytes and read timeouts it is given, and right
\* after each hand-off it is receiving with an empty buffer.
C18_NeverCrashes ==
    slave.addr \in 1..247 =>
      /\ slave.pc \in {"off", "parse_cli", "usage", "listen"}
      /\ slave.error = "" \/ slave.pc = "usage"
      /\ slave.handoff # <<>> => (slave.pc = "listen" /\ slave.buffer = <<>>)

C18_Witness ==
    /\ slave.addr = 5
    /\ slave.handoff = NonAscii(Encode(5, 1, <<72>>))
    /\ slave.log = "Invalid frame"
    /\ slave.pc = "listen"
    /\ slave.buffer = <<>>

\* C19: when the same valid unicast WriteText frame was processed two or
\* more times in a row, the stored text is the frame's data, as after the
\* first processing, and every one of the processings wrote one
\* acknowledgement (ownAddress, 1, "OK").
C19_WriteIdempotent ==
    (env.times >= 2 /\ slave.handoff = env.lastw) =>
      /\ slave.stored_text = parse_ascii_frame(env.lastw).data
      /\ slave.stored_text = env.written
      /\ env.acks = env.times
      /\ slave.tx = <<Encode(slave.addr, 1, OK)>>

C19_Witness ==
    /\ env.times = 2
    /\ slave.handoff = env.lastw
    /\ env.lastw = Encode(5, 1, <<72, 73>>)
    /\ slave.stored_text = <<72, 73>>
    /\ env.acks = 2

\* C20: a running slave has one own address, which is in 1..247.
C20_AddressDomain == slave.pc = "listen" => slave.addr \in 1..247

---------------------------------------------------------------------------
(* Frames across attempts; canonical frames *)

\* C26: the response a master attempt returns holds no byte that was sent in
\* reply to an earlier transmission.
C26_OwnReplyOnly == master.resp # NoResp => ~env.stale

\* C28: whenever parse_ascii_frame accepts an input, the address it returns
\* is in 0..247 and build_ascii_frame of the returned triple is that input.
C28_Canonical ==
    (io.step = "wire" /\ io.parsed.kind = "ok") =>
      /\ io.parsed.addr \in 0..247
      /\ build_ascii_frame(io.parsed.addr, io.parsed.func, io.parsed.data)
           = [kind |-> "ok", frame |-> io.raw]

---------------------------------------------------------------------------
(* Frame boundaries *)

\* the step reads one byte / is a read that times out
SlaveGotByte ==
    slave.pc = "listen" /\ wire.slave # <<>> /\ wire'.slave = Tail(wire.slave)
SlaveTimedOut ==
    slave.pc = "listen" /\ wire'.slave = wire.slave /\ now' = now + ReadTimeout
MasterGotByte ==
    /\ master.pc = "receive" /\ wire.master # <<>>
    /\ wire'.master = Tail(wire.master)
MasterTimedOut ==
    /\ master.pc = "receive" /\ wire'.master = wire.master
    /\ now' = now + ReadTimeout

EndsCrLf(b) == Len(b) >= 2 /\ b[Len(b) - 1] = 13 /\ b[Len(b)] = 10

\* C21: the slave hands its buffer off, and the master returns its buffer as
\* the response, exactly (a) in the step that reads the byte which makes the
\* buffer end with CR LF, and (b) in a read that times out while the buffer
\* is non-empty and the last byte is at least char_gap old; no other step
\* hands anything off.
C21_Boundary ==
    [][/\ SlaveGotByte =>
            LET b == Append(slave.buffer, Head(wire.slave))
            IN  /\ slave'.handoff # <<>> <=> EndsCrLf(b)
                /\ slave'.handoff # <<>> =>
                     (slave'.handoff = b /\ slave'.how = "crlf")
       /\ SlaveTimedOut =>
            /\ slave'.handoff # <<>> <=>
                 /\ slave.buffer # <<>>
                 /\ now' - slave.last_byte_time >= slave.char_gap
            /\ slave'.handoff # <<>> =>
                 (slave'.handoff = slave.buffer /\ slave'.how = "gap")
       /\ ~(SlaveGotByte \/ SlaveTimedOut) => slave'.handoff = slave.handoff
       /\ MasterGotByte =>
            LET b == Append(master.buffer, Head(wire.master))
            IN  /\ master'.resp # NoResp <=> EndsCrLf(b)
                /\ master'.resp # NoResp => master'.resp = Resp(b)
       /\ MasterTimedOut =>
            /\ master'.resp # NoResp <=>
                 /\ master.buffer # <<>>
                 /\ now' - master.last_byte_time >= master.char_gap
            /\ master'.resp # NoResp => master'.resp = Resp(master.buffer)
       /\ ~(MasterGotByte \/ MasterTimedOut) => master'.resp = master.resp
      ]_vars

C21_Witness ==
    /\ slave.how = "gap"
    /\ slave.char_gap = 2
    /\ slave.handoff = <<Colon>>
    /\ now - slave.last_byte_time = 2
    /\ slave.pc = "listen"

\* C22: right after every hand-off the slave's buffer is empty, whatever the
\* hand-off led to.
C22_BufferCleared == slave.handoff # <<>> => slave.buffer = <<>>

\* C25: a hand-off made on the gap never parses: it is logged as invalid,
\* writes nothing and leaves the stored text alone; between loop iterations
\* a non-empty buffer does not end with CR LF; and every frame the slave
\* accepted was handed off on its terminator.
C25_GapNeverParses ==
    /\ [](slave.how = "gap" =>
            /\ HandedBad(slave)
            /\ slave.log = "Invalid frame"
            /\ slave.tx = <<>>)
    /\ []((slave.pc = "listen" /\ slave.buffer # <<>>)
            => ~EndsCrLf(slave.buffer))
    /\ []((slave.handoff # <<>> /\ slave.log = "RX") => slave.how = "crlf")
    /\ [][slave'.how = "gap" => slave'.stored_text = slave.stored_text]_vars

C25_Witness ==
    /\ slave.how = "gap"
    /\ slave.handoff = NoTerminator(Encode(5, 1, <<72>>))
    /\ slave.stored_text = <<72, 73>>
    /\ slave.log = "Invalid frame"
    /\ slave.buffer = <<>>

---------------------------------------------------------------------------
(* Termination *)

\* the master process is over: run_master returned, or it never got to the port
Ended(m) == m.pc \in {"done", "failed", "usage", "crashed"}

\* C24: every master run ends, whatever arrives on the line; the attempt
\* counter stays in 0..retries; a request is written only between attempts,
\* the first one or after an attempt that returned no response, so never
\* while a request is outstanding.
C24_Terminates ==
    /\ <>Ended(master)
    /\ [](master.pc \in {"transaction", "receive", "done", "failed"} =>
            /\ master.attempt \in 0..master.retries
            /\ Len(master.tx) <= master.attempt + 1
            /\ Len(master.tx) <= master.retries + 1)
    /\ [][master'.tx # master.tx =>
            /\ master.pc = "transaction"
            /\ master.resp = NoResp
            /\ master'.tx = Append(master.tx, master.frame)
            /\ Len(master.tx) = master.attempt
            /\ master.tx # <<>> => master.log = "Retry"]_vars

C24_Witness ==
    /\ master.pc = "failed"
    /\ master.buffer # <<>>
    /\ master.retries = 1
    /\ master.attempt = 1
    /\ Len(master.tx) = 2

\* no byte is on the line to the slave and none will be sent any more
Silent == wire.slave = <<>> /\ env.nsent = MaxFrames

\* C23: when the slave holds bytes in its buffer and no further byte arrives,
\* the polling loop eventually hands the buffer off on the gap and empties
\* it, for char_gap 0, 0.1, 0.2 and 1 s.
C23_GarbageRecovered ==
    (Silent /\ slave.pc = "listen" /\ slave.buffer # <<>>)
    ~> (slave.how = "gap" /\ slave.handoff # <<>> /\ slave.buffer = <<>>)

C23_Witness ==
    /\ Silent
    /\ slave.char_gap = MaxCharGap
    /\ slave.how = "gap"
    /\ slave.handoff = NoTerminator(Encode(5, 1, <<72>>))
    /\ slave.buffer = <<>>
    /\ now - slave.last_byte_time = MaxCharGap

---------------------------------------------------------------------------
(* End to end *)

\* C27: with no reply lost and a timeout of at least one read, the write run
\* ends on its first attempt with the reply (A, 1, "OK") and the slave
\* stores T, and the read run that follows ends on its first attempt with
\* the reply (A, 2, T); when replies were lost and the write was
\* retransmitted, the slave stores T all the same.
C27_WriteThenRead ==
    /\ (env.run = 1 /\ Terminal(master) /\ env.lost = 0
        /\ master.timeout >= 1) =>
         /\ master.pc = "done"
         /\ Len(master.tx) = 1
         /\ master.resp = Resp(Encode(master.addr, 1, <<79, 75>>))
         /\ slave.stored_text = master.text
    /\ (env.run = 2 /\ Terminal(master) /\ env.lost = 0
        /\ master.timeout >= 1) =>
         /\ env.first.pc = "done" /\ env.first.ntx = 1
         /\ master.pc = "done"
         /\ Len(master.tx) = 1
         /\ master.resp = Resp(Encode(master.addr, 2, env.first.text))
         /\ slave.stored_text = env.first.text
    /\ (env.run = 1 /\ Terminal(master) /\ env.lost >= 1) =>
         slave.stored_text = master.text

C27_Witness ==
    /\ env.run = 2
    /\ env.lost = 0
    /\ env.first.text = <<72, 73>>
    /\ master.pc = "done"
    /\ master.resp = Resp(Encode(5, 2, <<72, 73>>))
    /\ slave.stored_text = <<72, 73>>

===========================================================================
